---- MODULE Spec2Model ----
(***************************************************************************)
(* Model of error_catcher: the `silent` decorator                          *)
(* (src/error_catcher/error_catcher.py).                                   *)
(*                                                                         *)
(* Text is modelled as a sequence of lines, each line a sequence of        *)
(* pieces.  Everything that the code slices with [:200] (the finding       *)
(* "where: name = value") is spelled character by character, so that the   *)
(* truncation counts what the code counts; fixed labels that are never     *)
(* sliced are one piece each.  Every line stands for the line followed by  *)
(* its "\n".                                                               *)
(***************************************************************************)
EXTENDS Integers, Sequences, FiniteSets, TLC

VARIABLES
    fs,        \* the file system: path -> [exists, content]
    stdout,    \* what the latest invocation printed (a sequence of lines)
    call,      \* the latest invocation: configuration, clock reading, behaviour of func
    outcome,   \* how the latest invocation ended, seen from its caller
    report,    \* error_message as built by the latest invocation
    written    \* per path: the reports persisted so far, oldest first, with their mode

vars == <<fs, stdout, call, outcome, report, written>>

(***************************************************************************)
(* Bounds of the model and constants of the program.                       *)
(***************************************************************************)
MaxLogged == 3       \* the reports one log file holds
TruncLen == 200      \* var[:200]
SepLen == 32         \* "-" * 32

Min(a, b) == IF a < b THEN a ELSE b

\* s[:n] of Python
Take(s, n) == SubSeq(s, 1, Min(n, Len(s)))

IsPrefix(p, s) == Len(p) <= Len(s) /\ SubSeq(s, 1, Len(p)) = p

Digit == <<"1", "2", "3", "4", "5", "6", "7", "8", "9", "0">>

\* a display string of n characters, each position recognisable
Digits(n) == [p \in 1..n |-> Digit[((p - 1) % 10) + 1]]

(***************************************************************************)
(* Python objects: an identity (what `is` compares), the result of str(),  *)
(* whether str() raises, and the attributes getattr finds.                 *)
(***************************************************************************)
Obj(id, str, raises, attrs) ==
    [id |-> id, str |-> str, raises |-> raises, attrs |-> attrs]

NoAttrs == <<>>

None == Obj("None", <<"N", "o", "n", "e">>, FALSE, NoAttrs)

\* cgitb.__UNDEF__, the list object cgitb.lookup and getattr(..., __UNDEF__) return
cgitb_UNDEF == Obj("cgitb.__UNDEF__", <<"[", "]">>, FALSE, NoAttrs)

\* error_catcher.__UNDEF__ = []: another list object, equal but not identical
__UNDEF__ == Obj("error_catcher.__UNDEF__", <<"[", "]">>, FALSE, NoAttrs)

\* x is y
Is(x, y) == x.id = y.id

(***************************************************************************)
(* The `where` of a finding: None, or a string ('local', 'global',         *)
(* 'builtin', or the attribute prefix such as 'o.').                       *)
(***************************************************************************)
WNone == [isNone |-> TRUE, s |-> <<>>]
WStr(s) == [isNone |-> FALSE, s |-> s]
LocalStr == <<"l", "o", "c", "a", "l">>
GlobalStr == <<"g", "l", "o", "b", "a", "l">>
BuiltinStr == <<"b", "u", "i", "l", "t", "i", "n">>

\* `if where:`
Truthy(where) == ~where.isNone /\ where.s # <<>>

\* f'{where}'
FormatWhere(where) == IF where.isNone THEN None.str ELSE where.s

\* lookup with the global namespace searched before the local one
lookup_global_first(name, frame) ==
    IF name \in DOMAIN frame.globals
    THEN [where |-> WStr(GlobalStr), value |-> frame.globals[name]]
    ELSE IF name \in DOMAIN frame.locals
    THEN [where |-> WStr(LocalStr), value |-> frame.locals[name]]
    ELSE IF name \in DOMAIN frame.builtins
    THEN [where |-> WStr(BuiltinStr), value |-> frame.builtins[name]]
    ELSE [where |-> WNone, value |-> cgitb_UNDEF]

(***************************************************************************)
(* cgitb.lookup(name, frame, locals)                                       *)
(***************************************************************************)
lookup(name, frame) ==
    IF name \in DOMAIN frame.locals
    THEN [where |-> WStr(LocalStr), value |-> frame.locals[name]]
    ELSE IF name \in DOMAIN frame.globals
    THEN [where |-> WStr(GlobalStr), value |-> frame.globals[name]]
    ELSE IF name \in DOMAIN frame.builtins
    THEN [where |-> WStr(BuiltinStr), value |-> frame.builtins[name]]
    ELSE [where |-> WNone, value |-> cgitb_UNDEF]

\* getattr(parent, token, cgitb.__UNDEF__)
getattr(parent, token) ==
    IF token \in DOMAIN parent.attrs THEN parent.attrs[token] ELSE cgitb_UNDEF

kwlist == {<<"r", "e", "t", "u", "r", "n">>}
DOT == <<".">>

(***************************************************************************)
(* cgitb.scanvars(reader, frame, locals): the names used on the logical    *)
(* line that starts at the frame's line, as (name, where, value).  The     *)
(* frame's `tokens` are what tokenize yields for the reader.               *)
(***************************************************************************)
RECURSIVE scan(_, _, _, _, _, _, _)
scan(toks, frame, found, lasttoken, parent, prefix, value) ==
    IF toks = <<>> THEN found
    ELSE LET t == Head(toks)
             rest == Tail(toks)
         IN  IF t.ttype = "NEWLINE" THEN found
             ELSE IF t.ttype = "NAME" /\ t.token \notin kwlist
             THEN IF lasttoken = DOT
                  THEN IF ~Is(parent, cgitb_UNDEF)
                       THEN LET v == getattr(parent, t.token)
                            IN  scan(rest, frame,
                                     Append(found, <<prefix \o t.token, WStr(prefix), v>>),
                                     t.token, parent, prefix, v)
                       ELSE scan(rest, frame, found, t.token, parent, prefix, value)
                  ELSE LET r == lookup(t.token, frame)
                       IN  scan(rest, frame,
                                Append(found, <<t.token, r.where, r.value>>),
                                t.token, parent, prefix, r.value)
             ELSE IF t.token = DOT
             THEN scan(rest, frame, found, t.token, value, prefix \o lasttoken \o DOT, value)
             ELSE scan(rest, frame, found, t.token, None, <<>>, value)

scanvars(frame) == scan(frame.tokens, frame, <<>>, <<>>, None, <<>>, cgitb_UNDEF)

(***************************************************************************)
(* parse_vars(vars): one display line per name, first occurrence only.     *)
(* str(value) inside the f-string may raise; the exception leaves          *)
(* parse_vars.                                                             *)
(***************************************************************************)
FindingLine(name, where, value) ==
    FormatWhere(where) \o <<":", " ">> \o name \o <<" ", "=", " ">> \o value.str

UndefinedLine(name) ==
    name \o <<" ", "u", "n", "d", "e", "f", "i", "n", "e", "d">>

RECURSIVE parse(_, _, _)
parse(found, done, dump) ==
    IF found = <<>> THEN [raised |-> FALSE, dump |-> dump]
    ELSE LET name == found[1][1]
             where == found[1][2]
             value == found[1][3]
         IN  IF name \in done THEN parse(Tail(found), done, dump)
             ELSE IF ~Is(value, __UNDEF__)
             THEN IF value.raises
                  THEN [raised |-> TRUE, dump |-> dump]
                  ELSE parse(Tail(found), done \cup {name},
                             Append(dump, FindingLine(name, where, value)))
             ELSE parse(Tail(found), done \cup {name}, Append(dump, UndefinedLine(name)))

parse_vars(found) == parse(found, {}, <<>>)

(***************************************************************************)
(* variable_catching(key_vars): for every frame of the traceback, the      *)
(* auto-detected findings and the manually traced ones.                    *)
(***************************************************************************)
\* the loop over key_vars without `if key_var not in done`
RECURSIVE manual_caught_again(_, _, _)
manual_caught_again(key_vars, done, frame) ==
    IF key_vars = <<>> THEN <<>>
    ELSE LET key_var == Head(key_vars)
             r == lookup(key_var, frame)
             rest == manual_caught_again(Tail(key_vars), done, frame)
         IN  IF Truthy(r.where)
             THEN <<<<key_var, r.where, r.value>>>> \o rest
             ELSE rest

\* the loop over key_vars without `if where`
RECURSIVE manual_caught_anywhere(_, _, _)
manual_caught_anywhere(key_vars, done, frame) ==
    IF key_vars = <<>> THEN <<>>
    ELSE LET key_var == Head(key_vars)
             r == lookup(key_var, frame)
             rest == manual_caught_anywhere(Tail(key_vars), done, frame)
         IN  IF key_var \notin done
             THEN <<<<key_var, r.where, r.value>>>> \o rest
             ELSE rest

\* _manual_caught_vars: the loop over key_vars
RECURSIVE manual_caught(_, _, _)
manual_caught(key_vars, done, frame) ==
    IF key_vars = <<>> THEN <<>>
    ELSE LET key_var == Head(key_vars)
             r == lookup(key_var, frame)
             rest == manual_caught(Tail(key_vars), done, frame)
         IN  IF key_var \notin done /\ Truthy(r.where)
             THEN <<<<key_var, r.where, r.value>>>> \o rest
             ELSE rest

VariablesLabel == <<"/*Variables*/">>
DetectedLabel == <<"|-- Detected relevant vars:">>
OtherLabel == <<"|-- Other traced vars:">>
ItemMark == <<"  |-- ">>

\* f'{file}, line {lnum}\n'
FrameHeader(frame) == <<frame.file, ", line ", frame.lnum>>

\* the item without the slice
Item_unsliced(var) == ItemMark \o var

\* f'  |-- {var[:200]}\n'
Item(var) == ItemMark \o Take(var, TruncLen)

Items(dump) == [n \in 1..Len(dump) |-> Item(dump[n])]

\* the names scanvars caught: done = [item[0] for item in _auto_caught_vars]
Caught(found) == {found[n][1] : n \in 1..Len(found)}

RECURSIVE catching(_, _, _, _)
catching(key_vars, records, error_message, flag) ==
    IF records = <<>> THEN [raised |-> FALSE, text |-> error_message]
    ELSE LET frame == Head(records)
             auto == scanvars(frame)
             auto_caught_vars == parse_vars(auto)
             done == Caught(auto)
             manual_caught_vars == parse_vars(manual_caught(key_vars, done, frame))
         IN  IF auto_caught_vars.raised \/ manual_caught_vars.raised
             THEN [raised |-> TRUE, text |-> error_message]
             ELSE LET any == Len(auto_caught_vars.dump) + Len(manual_caught_vars.dump) > 0
                      top == IF any
                             THEN (IF flag THEN <<VariablesLabel>> ELSE <<>>)
                                  \o <<FrameHeader(frame)>>
                             ELSE <<>>
                      detected == IF auto_caught_vars.dump # <<>>
                                  THEN <<DetectedLabel>> \o Items(auto_caught_vars.dump)
                                  ELSE <<>>
                      other == IF manual_caught_vars.dump # <<>>
                               THEN <<OtherLabel>> \o Items(manual_caught_vars.dump)
                               ELSE <<>>
                  IN  catching(key_vars, Tail(records),
                               error_message \o top \o detected \o other,
                               flag /\ ~any)

variable_catching(key_vars, records) == catching(key_vars, records, <<>>, TRUE)

(***************************************************************************)
(* The inputs of the model: names, values, frames, behaviours of func.     *)
(***************************************************************************)
nI == <<"i">>
nJ == <<"j">>
nK == <<"k">>
nL == <<"l">>
nM == <<"m">>
nB == <<"b">>
nO == <<"o">>
nX == <<"x">>
nY == <<"y">>
nU == <<"u">>
nZZ == <<"z", "z">>
nLen == <<"l", "e", "n">>
nBig == <<"b", "i", "g">>
nHuge == <<"h", "u", "g", "e">>
nFunc == <<"f", "u", "n", "c">>
nInner == <<"i", "n", "n", "e", "r">>
nKeyVars == <<"k", "e", "y", "_", "v", "a", "r", "s">>
nLogFile == <<"l", "o", "g", "_", "f", "i", "l", "e">>
nAscending == <<"a", "s", "c", "e", "n", "d", "i", "n", "g">>
nSilent == <<"s", "i", "l", "e", "n", "t">>

Num(d) == Obj(d, <<d>>, FALSE, NoAttrs)

\* values whose display string is just under, and over, the truncation length
Big == Obj("big", Digits(TruncLen - 5), FALSE, NoAttrs)
Huge == Obj("huge", Digits(TruncLen + 5), FALSE, NoAttrs)

\* a value whose __str__ raises
Bad == Obj("bad", <<>>, TRUE, NoAttrs)

\* an object with the attribute x and no attribute y
Thing == Obj("thing", <<"<", "O", ">">>, FALSE, nX :> Num("1"))

Function(id) == Obj(id, <<"<", "f", "n", ">">>, FALSE, NoAttrs)

Tok(ttype, token) == [ttype |-> ttype, token |-> token]
NAME(n) == Tok("NAME", n)
OP(c) == Tok("OP", <<c>>)
INDENT == Tok("INDENT", <<" ", " ", " ", " ">>)
NEWLINE == Tok("NEWLINE", <<"\n">>)
RETURN == NAME(<<"r", "e", "t", "u", "r", "n">>)

Builtins == nLen :> Function("len")

\* the globals of the module that defines func (src/tests/test.py: l = 4)
UserGlobals ==
    (nL :> Num("4")) @@ (nJ :> Num("9")) @@ (nM :> Huge)
    @@ (nInner :> Function("inner"))

\* the globals of error_catcher.py
ModuleGlobals == (<<"_", "_", "U", "N", "D", "E", "F", "_", "_">> :> __UNDEF__)
                 @@ (nSilent :> Function("silent"))

Frame(file, lnum, locals, globals, tokens) ==
    [file |-> file, lnum |-> lnum, locals |-> locals, globals |-> globals,
     builtins |-> Builtins, tokens |-> tokens]

\* return k / i          with i, j, k = 0, 1, 2
FrameA == Frame("test.py", "7",
                (nI :> Num("0")) @@ (nJ :> Num("1")) @@ (nK :> Num("2")), UserGlobals,
                <<INDENT, RETURN, NAME(nK), OP("/"), NAME(nI), NEWLINE>>)

\* return big / huge / u / big     with u bound nowhere
FrameB == Frame("test.py", "12", (nBig :> Big) @@ (nHuge :> Huge), UserGlobals,
                <<INDENT, RETURN, NAME(nBig), OP("/"), NAME(nHuge), OP("/"), NAME(nU),
                  OP("/"), NAME(nBig), NEWLINE>>)

\* return o.x / o.y
FrameC == Frame("test.py", "26", nO :> Thing, UserGlobals,
                <<INDENT, RETURN, NAME(nO), OP("."), NAME(nX), OP("/"),
                  NAME(nO), OP("."), NAME(nY), NEWLINE>>)

\* return len(i)         with a local b whose __str__ raises
FrameD == Frame("test.py", "31", (nB :> Bad) @@ (nI :> Num("0")), UserGlobals,
                <<INDENT, RETURN, NAME(nLen), OP("("), NAME(nI), OP(")"), NEWLINE>>)

\* return b / b          with a local b whose __str__ raises
FrameE == Frame("test.py", "36", nB :> Bad, UserGlobals,
                <<INDENT, RETURN, NAME(nB), OP("/"), NAME(nB), NEWLINE>>)

\* return inner()        the caller of the failing function, with its own i
FrameO == Frame("test.py", "40", nI :> Num("5"), UserGlobals,
                <<INDENT, RETURN, NAME(nInner), OP("("), OP(")"), NEWLINE>>)

Raises(exc, frames) == [returns |-> FALSE, value |-> None, exc |-> exc, frames |-> frames]
Returns(value) == [returns |-> TRUE, value |-> value, exc |-> "", frames |-> <<>>]

Behaviours ==
    { Returns(Num("5")), Returns(None),
      Raises("ZeroDivisionError", <<FrameA>>),
      Raises("KeyboardInterrupt", <<FrameO, FrameA>>),
      Raises("NameError", <<FrameB>>),
      Raises("AttributeError", <<FrameC>>),
      Raises("TypeError", <<FrameD>>),
      Raises("IndexError", <<FrameE>>) }

KeyVars ==
    { <<>>,
      <<<<>>>>,
      <<nI>>,
      <<nJ>>,
      <<nL>>,
      <<nJ, nI, nJ, nI>>,
      <<nL, nZZ, nLen, nJ, nU>>,
      <<nM, nB, nI>> }

LogPath == "test_log.log"
Paths == {LogPath}

T0 == "2026-01-01 00:00:00"
T3 == "2026-01-01 00:00:03"

Configs(keys, files) ==
    [key_vars : keys, log_file : files, ascending : BOOLEAN]

\* what one invocation of a decorated function is given
Calls(keys, files, clock, funcs) ==
    [cfg : Configs(keys, files), now : clock, func : funcs]

(***************************************************************************)
(* silent(key_vars, log_file, ascending)(func): decorated()                *)
(***************************************************************************)
\* the frame of decorated() itself, at `func()`: the traceback's first record.
\* Its locals are the closure's variables; the inputs of the model never
\* display key_vars, log_file or ascending, whose display is one piece each.
DecoratedFrame(cfg, func) ==
    Frame("error_catcher.py", "143",
          (nFunc :> Function("func"))
          @@ (nKeyVars :> Obj("key_vars", <<"[...]">>, FALSE, NoAttrs))
          @@ (nLogFile :> Obj("log_file", <<cfg.log_file>>, FALSE, NoAttrs))
          @@ (nAscending :> Obj("ascending", <<"bool">>, FALSE, NoAttrs)),
          ModuleGlobals,
          <<INDENT, NAME(nFunc), OP("("), OP(")"), NEWLINE>>)

\* inspect.getinnerframes(sys.exc_info()[2], context)
getinnerframes(c) == <<DecoratedFrame(c.cfg, c.func)>> \o c.func.frames

\* traceback.format_exc(): one line per frame, then the exception's line
format_exc(c) ==
    <<<<"Traceback (most recent call last):">>>>
    \o [n \in 1..Len(getinnerframes(c)) |->
            <<"  File ", getinnerframes(c)[n].file, ", line ", getinnerframes(c)[n].lnum>>]
    \o <<<<c.func.exc>>>>

Separator == [n \in 1..SepLen |-> "-"]
TracebackLabel == <<"/*Original Traceback*/">>
Blank == <<>>

\* f'{"-" * 32}\n{timestamp}\n\n/*Original Traceback*/\n{traceback.format_exc()}\n'
BasicPrompt(c) ==
    <<Separator, <<c.now>>, Blank, TracebackLabel>> \o format_exc(c) \o <<Blank>>

\* error_message as it stands at the output step, or the exception that left
\* variable_catching
ErrorMessage(c) ==
    LET caught == variable_catching(c.cfg.key_vars, getinnerframes(c))
        error_message == BasicPrompt(c) \o caught.text
    IN  [raised |-> caught.raised,
         text |-> IF error_message # <<>> THEN error_message \o <<Blank, Blank>>
                  ELSE error_message]

\* print(f'Exception caught. See {log_file}.')
Notice(log_file) == <<<<"Exception caught. See ", log_file, ".">>>>

\* the notice printed in place of the report
Printed_notice(error_message) == <<<<"Exception caught. See ", "", ".">>>>

\* print(error_message)
Printed(error_message) == error_message \o <<Blank>>

\* f.write(data) on a file opened 'a+'
WriteAtEnd(content, data) == content \o data

\* the write without the seek: after read() the position is the end of the file
WriteWithoutSeek(content, data) == content \o data

\* f2.seek(0, 0); f2.write(data) on a file opened 'r+'
WriteAtStart(content, data) == data \o SubSeq(content, Len(data) + 1, Len(content))

Returned(value) == [kind |-> "returned", value |-> value]
Raised == [kind |-> "raised", value |-> None]
NotCalled == [kind |-> "not called", value |-> None]

NoFile == [exists |-> FALSE, content |-> <<>>]
NoCall == [cfg |-> [key_vars |-> <<>>, log_file |-> "", ascending |-> FALSE],
           now |-> T0, func |-> Returns(None)]

Init ==
    /\ fs = [p \in Paths |-> NoFile]
    /\ stdout = <<>>
    /\ call = NoCall
    /\ outcome = NotCalled
    /\ report = <<>>
    /\ written = [p \in Paths |-> <<>>]

\* func() returns: decorated() falls off its end
CallReturns(inputs) ==
    \E c \in inputs :
        /\ c.func.returns
        /\ call' = c
        /\ outcome' = Returned(None)
        /\ stdout' = <<>>
        /\ report' = <<>>
        /\ UNCHANGED <<fs, written>>

\* func() raises and the display of a value raises inside the handler
CallInspectionRaises(inputs) ==
    \E c \in inputs :
        /\ ~c.func.returns
        /\ ErrorMessage(c).raised
        /\ call' = c
        /\ outcome' = Raised
        /\ stdout' = <<>>
        /\ report' = <<>>
        /\ UNCHANGED <<fs, written>>

\* func() raises, log_file is empty
CallPrints(inputs) ==
    \E c \in inputs :
        /\ ~c.func.returns
        /\ c.cfg.log_file = ""
        /\ LET error_message == ErrorMessage(c)
           IN  /\ ~error_message.raised
               /\ call' = c
               /\ outcome' = Returned(None)
               /\ stdout' = Printed(error_message.text)
               /\ report' = error_message.text
               /\ UNCHANGED <<fs, written>>

\* func() raises, log_file is set, ascending
CallAppends(inputs) ==
    \E c \in inputs :
        /\ ~c.func.returns
        /\ c.cfg.log_file # ""
        /\ c.cfg.ascending
        /\ Len(written[c.cfg.log_file]) < MaxLogged
        /\ LET error_message == ErrorMessage(c)
           IN  /\ ~error_message.raised
               /\ call' = c
               /\ outcome' = Returned(None)
               /\ stdout' = Notice(c.cfg.log_file)
               /\ report' = error_message.text
               /\ fs' = [fs EXCEPT ![c.cfg.log_file] =
                           [exists |-> TRUE,
                            content |-> WriteAtEnd(@.content, error_message.text)]]
               /\ written' = [written EXCEPT ![c.cfg.log_file] =
                           Append(@, [text |-> error_message.text, ascending |-> TRUE])]

\* func() raises, log_file is set, not ascending
CallPrepends(inputs) ==
    \E c \in inputs :
        /\ ~c.func.returns
        /\ c.cfg.log_file # ""
        /\ ~c.cfg.ascending
        /\ Len(written[c.cfg.log_file]) < MaxLogged
        /\ LET error_message == ErrorMessage(c)
           IN  /\ ~error_message.raised
               /\ call' = c
               /\ outcome' = Returned(None)
               /\ stdout' = Notice(c.cfg.log_file)
               /\ report' = error_message.text
               /\ fs' = [fs EXCEPT ![c.cfg.log_file] =
                           [exists |-> TRUE,
                            content |-> WriteAtStart(@.content,
                                                     error_message.text \o @.content)]]
               /\ written' = [written EXCEPT ![c.cfg.log_file] =
                           Append(@, [text |-> error_message.text, ascending |-> FALSE])]

\* every key_vars and behaviour of the model, reports printed
PrintCalls == Calls(KeyVars, {""}, {T0}, Behaviours)

Next ==
    \/ CallReturns(PrintCalls)
    \/ CallInspectionRaises(PrintCalls)
    \/ CallPrints(PrintCalls)

Spec == Init /\ [][Next]_vars

\* one function failing at two clock readings, reports printed or logged
LogCalls ==
    Calls({<<nJ, nI, nJ, nI>>}, {"", LogPath}, {T0, T3},
          {Raises("ZeroDivisionError", <<FrameA>>)})

NextLog ==
    \/ CallPrints(LogCalls)
    \/ CallAppends(LogCalls)
    \/ CallPrepends(LogCalls)

SpecLog == Init /\ [][NextLog]_vars

(***************************************************************************)
(* Reading a report back: the section of a frame, the items under each     *)
(* label, and the where, name and value an item shows.                     *)
(***************************************************************************)
Records == getinnerframes(call)
KeyNames == {call.cfg.key_vars[n] : n \in 1..Len(call.cfg.key_vars)}
Failed == outcome.kind # "not called" /\ ~call.func.returns

\* the first position of line in text, or 0
IndexOf(text, line) ==
    IF \E n \in 1..Len(text) : text[n] = line
    THEN CHOOSE n \in 1..Len(text) : text[n] = line /\ \A m \in 1..(n - 1) : text[m] # line
    ELSE 0

\* the first position of pat in s, or 0
Find(s, pat) ==
    LET At(n) == SubSeq(s, n, n + Len(pat) - 1) = pat
        starts == 1..(Len(s) - Len(pat) + 1)
    IN  IF \E n \in starts : At(n)
        THEN CHOOSE n \in starts : At(n) /\ \A m \in 1..(n - 1) : ~At(m)
        ELSE 0

HeaderLine(frame) == <<frame.file, ", line ", frame.lnum>>
IsHeader(line) == Len(line) = 3 /\ line[2] = ", line "
IsItem(line) == Len(line) >= 1 /\ line[1] = "  |-- "

\* the lines of text that follow position h as long as Goes holds of them
Run(text, h, Goes(_)) ==
    LET e == CHOOSE e \in h..Len(text) :
                 /\ \A n \in (h + 1)..e : Goes(text[n])
                 /\ e = Len(text) \/ ~Goes(text[e + 1])
    IN  SubSeq(text, h + 1, e)

InSection(line) == ~IsHeader(line) /\ line # <<>>

\* the lines under the header of frame, up to the next header or the end
Section(text, frame) ==
    LET h == IndexOf(text, HeaderLine(frame))
    IN  IF h = 0 THEN <<>> ELSE Run(text, h, InSection)

ItemsUnder(section, label) ==
    LET l == IndexOf(section, label)
    IN  IF l = 0 THEN <<>> ELSE Run(section, l, IsItem)

Detected(section) == ItemsUnder(section, <<"|-- Detected relevant vars:">>)
Other(section) == ItemsUnder(section, <<"|-- Other traced vars:">>)

ColonSpace == <<":", " ">>
SpaceEqSpace == <<" ", "=", " ">>
SpaceUndefined == <<" ", "u", "n", "d", "e", "f", "i", "n", "e", "d">>

\* what follows the "  |-- " of an item
Body(item) == Tail(item)

IsValueItem(item) ==
    Find(Body(item), ColonSpace) > 0
    /\ Find(Body(item), SpaceEqSpace) > Find(Body(item), ColonSpace)

IsUndefinedItem(item) ==
    /\ ~IsValueItem(item)
    /\ Len(Body(item)) > Len(SpaceUndefined)
    /\ SubSeq(Body(item), Len(Body(item)) - Len(SpaceUndefined) + 1, Len(Body(item)))
         = SpaceUndefined

ItemName(item) ==
    IF IsValueItem(item)
    THEN SubSeq(Body(item), Find(Body(item), ColonSpace) + 2,
                Find(Body(item), SpaceEqSpace) - 1)
    ELSE IF IsUndefinedItem(item)
    THEN SubSeq(Body(item), 1, Len(Body(item)) - Len(SpaceUndefined))
    ELSE Body(item)

ItemWhere(item) == SubSeq(Body(item), 1, Find(Body(item), ColonSpace) - 1)

ItemValue(item) ==
    SubSeq(Body(item), Find(Body(item), SpaceEqSpace) + 3, Len(Body(item)))

Names(items) == [n \in 1..Len(items) |-> ItemName(items[n])]
Count(items, name) == Cardinality({n \in 1..Len(items) : ItemName(items[n]) = name})

WhereText(where) == IF where.isNone THEN <<"N", "o", "n", "e">> ELSE where.s

\* the whole text of a finding before any cut
ShownText(where, name, value) ==
    WhereText(where) \o ColonSpace \o name \o SpaceEqSpace \o value.str

Bound(name, frame) ==
    name \in (DOMAIN frame.locals) \cup (DOMAIN frame.globals)

Resolves(name, frame) ==
    Bound(name, frame) \/ name \in DOMAIN frame.builtins

\* the first n characters of s
First(s, n) == [k \in 1..(IF Len(s) < n THEN Len(s) ELSE n) |-> s[k]]

ShownAs(items, body) == \E n \in 1..Len(items) : Body(items[n]) = body

RECURSIVE FirstMentions(_, _)
FirstMentions(names, seen) ==
    IF names = <<>> THEN <<>>
    ELSE IF Head(names) \in seen THEN FirstMentions(Tail(names), seen)
    ELSE <<Head(names)>> \o FirstMentions(Tail(names), seen \cup {Head(names)})

RECURSIVE Concat(_)
Concat(entries) ==
    IF entries = <<>> THEN <<>> ELSE Head(entries).text \o Concat(Tail(entries))

Reverse(s) == [n \in 1..Len(s) |-> s[Len(s) + 1 - n]]

(***************************************************************************)
(* The claims.                                                             *)
(***************************************************************************)

\* C1: whenever the wrapped callable raises, whatever the exception and the
\* configuration, the decorated call returns to its caller without raising.
C1_NeverRaises == Failed => outcome.kind = "returned"

\* C2: when the wrapped callable returns v, the decorated call returns v.
C2_ReturnValue ==
    (outcome.kind # "not called" /\ call.func.returns)
        => outcome = Returned(call.func.value)

\* C3: starting from an absent file, after failing invocations that all log to
\* one path with the same ascending value, the file is the concatenation of
\* their reports: newest first when ascending is false, oldest first when true.
C3_LogOrder ==
    \A p \in Paths :
        LET w == written[p]
        IN  /\ w = <<>> => ~fs[p].exists
            /\ (w # <<>> /\ \A n \in 1..Len(w) : ~w[n].ascending)
                  => fs[p] = [exists |-> TRUE, content |-> Concat(Reverse(w))]
            /\ (w # <<>> /\ \A n \in 1..Len(w) : w[n].ascending)
                  => fs[p] = [exists |-> TRUE, content |-> Concat(w)]

\* three reports, not all alike, prepended one after the other
C3_Witness ==
    \E p \in Paths :
        /\ Len(written[p]) = 3
        /\ \A n \in 1..3 : ~written[p][n].ascending
        /\ written[p][1].text # written[p][2].text
        /\ written[p][2].text # written[p][3].text

\* C4: in every frame, a name of key_vars that auto-detection found there is
\* shown exactly once under "Detected relevant vars" of that frame and never
\* under its "Other traced vars", however often key_vars lists it.
C4_AutoOnce ==
    report # <<>> =>
        \A n \in 1..Len(Records) :
            \A name \in KeyNames \cap Caught(scanvars(Records[n])) :
                /\ Count(Detected(Section(report, Records[n])), name) = 1
                /\ Count(Other(Section(report, Records[n])), name) = 0

\* a report for a key_vars that lists twice a name found on the failing line
C4_Witness ==
    /\ report # <<>>
    /\ \E n \in 1..Len(Records) :
        \E name \in KeyNames \cap Caught(scanvars(Records[n])) :
            /\ Cardinality({k \in 1..Len(call.cfg.key_vars) : call.cfg.key_vars[k] = name}) = 2
            /\ Count(Detected(Section(report, Records[n])), name) = 1

\* no frame lists name under "Other traced vars", with a value or as undefined
NotTraced(name) ==
    \A n \in 1..Len(Records) :
        LET other == Other(Section(report, Records[n]))
        IN  /\ Count(other, name) = 0
            /\ ~ShownAs(other, name \o SpaceUndefined)

FindingsShown(Expect(_, _, _)) ==
    \A n \in 1..Len(Records) :
        LET frame == Records[n]
            section == Section(report, frame)
            auto == scanvars(frame)
        IN  /\ \A k \in 1..Len(auto) :
                    ShownAs(Detected(section), Expect(auto[k][2], auto[k][1], auto[k][3]))
            /\ \A name \in KeyNames \ Caught(auto) :
                    Truthy(lookup(name, frame).where) =>
                        ShownAs(Other(section),
                                Expect(lookup(name, frame).where, name,
                                       lookup(name, frame).value))

LineCut(where, name, value) == First(ShownText(where, name, value), TruncLen)

ValueCut(where, name, value) ==
    WhereText(where) \o ColonSpace \o name \o SpaceEqSpace \o First(value.str, TruncLen)

\* C6 (as amended): every finding is shown as the first 200 characters of its
\* text "<where>: <name> = <display string>"; a text of 200 characters or
\* fewer is shown in full.
C6_LineTruncated == report # <<>> => FindingsShown(LineCut)

\* C6 (as stated): the value shown is the first 200 characters of the display
\* string, and a display string of 200 characters or fewer is shown in full.
C6_ValueTruncated == report # <<>> => FindingsShown(ValueCut)

\* a report with a finding whose display string is within 200 characters and
\* whose text is not, shown cut to 200 characters
C6_Witness ==
    /\ report # <<>>
    /\ \E n \in 1..Len(Records) :
        LET auto == scanvars(Records[n])
            items == Detected(Section(report, Records[n]))
        IN  \E k \in 1..Len(auto) :
                /\ Len(auto[k][3].str) <= TruncLen
                /\ Len(ShownText(auto[k][2], auto[k][1], auto[k][3])) > TruncLen
                /\ \E m \in 1..Len(items) :
                    /\ ItemName(items[m]) = auto[k][1]
                    /\ Len(Body(items[m])) = TruncLen

\* C7: a name found on the failing line of a frame that resolves in no scope
\* of the frame is shown under "Detected relevant vars" as "<name> undefined".
C7_UndefinedMarked ==
    report # <<>> =>
        \A n \in 1..Len(Records) :
            LET auto == scanvars(Records[n])
            IN  \A k \in 1..Len(auto) :
                    (auto[k][2].isNone /\ ~Resolves(auto[k][1], Records[n])) =>
                        ShownAs(Detected(Section(report, Records[n])),
                                auto[k][1] \o SpaceUndefined)

\* C8: in every frame, a name of key_vars that auto-detection did not find is
\* shown under "Other traced vars" as local with the local value if the frame's
\* locals bind it, else as global with the global value if its globals do (the
\* value cut as every finding is); the manual findings follow key_vars order
\* and come after the frame's auto-detected findings.
C8_ManualFindings ==
    report # <<>> =>
        \A n \in 1..Len(Records) :
            LET frame == Records[n]
                section == Section(report, frame)
                other == Other(section)
                caught == Caught(scanvars(frame))
                IsBound(name) == Bound(name, frame)
                Wanted(name) == name \notin caught /\ Bound(name, frame)
            IN  /\ \A name \in KeyNames :
                    Wanted(name) =>
                        /\ Count(other, name) = 1
                        /\ IF name \in DOMAIN frame.locals
                           THEN ShownAs(other, First(LocalStr \o ColonSpace \o name
                                    \o SpaceEqSpace \o frame.locals[name].str, TruncLen))
                           ELSE ShownAs(other, First(GlobalStr \o ColonSpace \o name
                                    \o SpaceEqSpace \o frame.globals[name].str, TruncLen))
                /\ SelectSeq(Names(other), IsBound)
                     = SelectSeq(FirstMentions(call.cfg.key_vars, {}), Wanted)
                /\ (Detected(section) # <<>> /\ other # <<>>) =>
                        IndexOf(section, <<"|-- Detected relevant vars:">>)
                            + Len(Detected(section))
                          < IndexOf(section, <<"|-- Other traced vars:">>)

\* a report where a frame shows several manual findings after its detected
\* ones, one of them bound both locally and globally
C8_Witness ==
    /\ report # <<>>
    /\ \E n \in 1..Len(Records) :
        LET frame == Records[n]
            section == Section(report, frame)
            IsBound(name) == Bound(name, frame)
        IN  /\ Detected(section) # <<>>
            /\ Len(SelectSeq(Names(Other(section)), IsBound)) >= 2
            /\ \E name \in KeyNames \ Caught(scanvars(frame)) :
                /\ name \in (DOMAIN frame.locals) \cap (DOMAIN frame.globals)
                /\ Count(Other(section), name) = 1

\* C9: an invocation with an empty log_file whose func raises creates and
\* changes no file, whatever ascending is, and prints the whole report and no
\* log-file notice.
C9_EmptyLogFile ==
    [][ (call'.cfg.log_file = "" /\ ~call'.func.returns /\ outcome'.kind = "returned") =>
            /\ fs' = fs
            /\ report' # <<>>
            /\ report'[4] = <<"/*Original Traceback*/">>
            /\ stdout' = report' \o <<<<>>>>
            /\ \A n \in 1..Len(stdout') :
                    ~(Len(stdout'[n]) = 3 /\ stdout'[n][1] = "Exception caught. See ")
      ]_vars

\* a report printed while the log file holds earlier reports
C9_Witness ==
    /\ call.cfg.log_file = ""
    /\ Failed
    /\ fs[LogPath].exists
    /\ fs[LogPath].content # <<>>
    /\ report # <<>>
    /\ stdout = report \o <<<<>>>>

\* some value that the report has to display has a string conversion that raises
BadValueTraced ==
    \E n \in 1..Len(Records) :
        LET frame == Records[n]
            auto == scanvars(frame)
        IN  \/ \E k \in 1..Len(auto) : auto[k][3].raises
            \/ \E name \in KeyNames \ Caught(auto) :
                    Truthy(lookup(name, frame).where) /\ lookup(name, frame).value.raises

\* C10: when the string conversion of a traced value raises, the decorated
\* call still returns without raising and the report still holds the original
\* traceback text and the other findings.
C10_Contained ==
    (Failed /\ BadValueTraced) =>
        /\ outcome.kind = "returned"
        /\ IsPrefix(BasicPrompt(call), report)
        /\ \A n \in 1..Len(Records) :
                LET auto == scanvars(Records[n])
                IN  \A k \in 1..Len(auto) :
                        ~auto[k][3].raises =>
                            ShownAs(Detected(Section(report, Records[n])),
                                    LineCut(auto[k][2], auto[k][1], auto[k][3]))

====
